---- MODULE Spec2Model ----
(***************************************************************************)
(* A model of ebay_ptcg_scraper.py: the EbayPTCGScraper client (token      *)
(* acquisition, query construction, search, normalisation, save) and the   *)
(* three-search run of main().                                             *)
(*                                                                         *)
(* Python values are tagged records, so that None, "", 0 and {} stay       *)
(* distinct and Python truthiness can be computed as the interpreter       *)
(* computes it.  The remote endpoints and the clock are the environment:   *)
(* every response they can give is a nondeterministic choice.              *)
(***************************************************************************)
EXTENDS Integers, Sequences, FiniteSets, TLC

VARIABLES
    pc,            \* position of the caller (main() or a test harness)
    env,           \* os.environ: EBAY_CLIENT_ID, EBAY_CLIENT_SECRET
    access_token,  \* self.access_token
    args,          \* arguments of the current / most recent call
    k,             \* which of main()'s three example searches is running
    http,          \* HTTP exchanges of the most recent search_psa_cards call
    results,       \* value returned by the most recent search_psa_cards
    cards,         \* value returned by the most recent parse_results
    error,         \* exception raised by the most recent call (NoExc if none)
    log,           \* main(): every observable effect of the run, in order
    fs,            \* the filesystem: filename -> file text
    clock,         \* datetime.now(), in seconds
    ret,           \* value returned by the most recent save_results
    saved,         \* harness: filename -> cards of the latest save returning it
    history        \* harness: outcome of each search call made so far

vars == <<pc, env, access_token, args, k, http, results, cards, error, log,
          fs, clock, ret, saved, history>>

-----------------------------------------------------------------------------
(* Bounds of the model.                                                    *)

MaxGrade == 11
MaxCalls == 3
MaxItems == 2
MaxClock == 1

-----------------------------------------------------------------------------
(* Python / JSON values.                                                   *)

None == [t |-> "null"]
JStr(s) == [t |-> "str", s |-> s]
JNum(n) == [t |-> "num", n |-> n]
JObj(o) == [t |-> "obj", o |-> o]
JList(l) == [t |-> "list", l |-> l]
\* a response body that is not JSON: response.json() raises on it
NotJson == [t |-> "invalid"]
\* a key left out of an object under construction
Absent == [t |-> "absent"]

\* bool(v) as Python computes it
Truthy(v) ==
    CASE v.t = "null" -> FALSE
      [] v.t = "str"  -> v.s # ""
      [] v.t = "num"  -> v.n # 0
      [] v.t = "obj"  -> DOMAIN v.o # {}
      [] v.t = "list" -> v.l # <<>>
      [] OTHER        -> TRUE

\* the object holding the keys of f whose value is not Absent
MkObj(f) == JObj([key \in {x \in DOMAIN f : f[x] # Absent} |-> f[key]])

NoExc == [type |-> "none", msg |-> ""]
Exception(m) == [type |-> "Exception", msg |-> m]
KeyError == [type |-> "KeyError", msg |-> "access_token"]
JSONDecodeError == [type |-> "JSONDecodeError", msg |-> ""]
AttributeError == [type |-> "AttributeError", msg |-> "no attribute 'get'"]

OK == 200

-----------------------------------------------------------------------------
(* The environment: what the two endpoints can answer.                     *)

FailStatuses == {401, 500}
ErrorTexts == {"", "denied"}

\* any JSON value may sit under "access_token"; null, "" and two real tokens
TokenValues == {None, JStr(""), JStr("tokA"), JStr("tokB")}

TokenResponses ==
    {[status |-> OK, text |-> "json", json |-> JObj("access_token" :> v)] :
        v \in TokenValues}
    \cup {[status |-> OK, text |-> "json", json |-> JObj(<<>>)],
          [status |-> OK, text |-> "html", json |-> NotJson]}
    \cup {[status |-> s, text |-> b, json |-> NotJson] :
            s \in FailStatuses, b \in ErrorTexts}

FullItem ==
    MkObj([title |-> JStr("Charizard PSA 10"),
           price |-> JObj([value |-> JStr("199.99"), currency |-> JStr("EUR")]),
           condition |-> JStr("Graded"),
           itemWebUrl |-> JStr("https://ebay/1"),
           image |-> JObj([imageUrl |-> JStr("https://img/1")]),
           seller |-> JObj([username |-> JStr("ash")])])
TitleOnly == MkObj([title |-> JStr("X")])
NullPrice == MkObj([title |-> JStr("X"), price |-> None])
SampleItems == {FullItem, TitleOnly, NullPrice}

SearchBodies ==
    {JObj(<<>>),
     JObj("itemSummaries" :> JList(<<>>)),
     JObj("itemSummaries" :> JList(<<FullItem>>)),
     JObj("itemSummaries" :> JList(<<TitleOnly, FullItem>>)),
     JObj("itemSummaries" :> JList(<<NullPrice>>))}

SearchResponses ==
    {[status |-> OK, text |-> "json", json |-> j] : j \in SearchBodies}
    \cup {[status |-> OK, text |-> "html", json |-> NotJson]}
    \cup {[status |-> s, text |-> b, json |-> JObj("errors" :> JStr(b))] :
            s \in FailStatuses, b \in ErrorTexts}

-----------------------------------------------------------------------------
(* get_access_token                                                        *)

\* a variant that stores the error body in the token field before raising
token_response_store(tok, tr) ==
    IF tr.status = OK
    THEN IF tr.json.t # "obj" THEN [access_token |-> tok, exc |-> JSONDecodeError]
         ELSE IF "access_token" \notin DOMAIN tr.json.o
              THEN [access_token |-> tok, exc |-> KeyError]
              ELSE [access_token |-> tr.json.o["access_token"], exc |-> NoExc]
    ELSE [access_token |-> JStr(tr.text),
          exc |-> Exception("Authentication failed: " \o tr.text)]

\* a variant that reports a failed authentication without raising
token_response_swallow(tok, tr) ==
    IF tr.status = OK
    THEN IF tr.json.t # "obj" THEN [access_token |-> tok, exc |-> JSONDecodeError]
         ELSE IF "access_token" \notin DOMAIN tr.json.o
              THEN [access_token |-> tok, exc |-> KeyError]
              ELSE [access_token |-> tr.json.o["access_token"], exc |-> NoExc]
    ELSE [access_token |-> tok, exc |-> NoExc]

\* lines 34-39: the token field and the exception after the response tr
token_response(tok, tr) ==
    IF tr.status = OK
    THEN IF tr.json.t # "obj" THEN [access_token |-> tok, exc |-> JSONDecodeError]
         ELSE IF "access_token" \notin DOMAIN tr.json.o
              THEN [access_token |-> tok, exc |-> KeyError]
              ELSE [access_token |-> tr.json.o["access_token"], exc |-> NoExc]
    ELSE [access_token |-> tok,
          exc |-> Exception("Authentication failed: " \o tr.text)]

PostEvent(tr) == [ev |-> "POST", status |-> tr.status, text |-> tr.text]

get_access_token(tok, tr) ==
    LET r == token_response(tok, tr)
    IN  [access_token |-> r.access_token, exc |-> r.exc, http |-> <<PostEvent(tr)>>]

-----------------------------------------------------------------------------
(* search_psa_cards                                                        *)

DefaultLimit == 50

RECURSIVE Join(_, _)
\* sep.join(parts)
Join(parts, sep) ==
    IF parts = <<>> THEN ""
    ELSE IF Len(parts) = 1 THEN parts[1]
    ELSE parts[1] \o sep \o Join(Tail(parts), sep)

\* f"PSA {psa_grade}"
FormatGrade(g) == "PSA " \o ToString(g.n)

\* lines 55-63
build_query(a) ==
    LET query_parts ==
            <<"Pokemon", "PSA">>
            \o (IF a.card_name # "" THEN <<a.card_name>> ELSE <<>>)
            \o (IF a.set_name # "" THEN <<a.set_name>> ELSE <<>>)
            \o (IF Truthy(a.psa_grade) THEN <<FormatGrade(a.psa_grade)>> ELSE <<>>)
    IN  Join(query_parts, " ")

\* a variant that requests a token on every search
NeedsTokenAlways(tok) == TRUE

\* line 51: if not self.access_token
NeedsToken(tok) == ~Truthy(tok)

\* a variant that returns the body whatever the status
search_response_unchecked(sr) ==
    IF sr.json.t = "invalid" THEN [ret |-> None, exc |-> JSONDecodeError]
    ELSE [ret |-> sr.json, exc |-> NoExc]

\* lines 83-86: the value returned, or the exception raised, after response sr
search_response(sr) ==
    IF sr.status = OK
    THEN IF sr.json.t = "invalid" THEN [ret |-> None, exc |-> JSONDecodeError]
         ELSE [ret |-> sr.json, exc |-> NoExc]
    ELSE [ret |-> None, exc |-> Exception("Search failed: " \o sr.text)]

GetEvent(tok, a, sr) ==
    [ev |-> "GET", status |-> sr.status, text |-> sr.text,
     q |-> build_query(a), limit |-> a.limit, bearer |-> tok]

\* the whole call: token field, HTTP exchanges, returned value, exception,
\* given the answers tr and sr the endpoints would give
search_psa_cards(tok, a, tr, sr) ==
    LET auth == IF NeedsToken(tok) THEN get_access_token(tok, tr)
                ELSE [access_token |-> tok, exc |-> NoExc, http |-> <<>>]
    IN  IF auth.exc # NoExc
        THEN [access_token |-> auth.access_token, http |-> auth.http,
              ret |-> None, exc |-> auth.exc, where |-> "auth"]
        ELSE LET out == search_response(sr)
             IN  [access_token |-> auth.access_token,
                  http |-> auth.http \o <<GetEvent(auth.access_token, a, sr)>>,
                  ret |-> out.ret, exc |-> out.exc, where |-> "search"]

-----------------------------------------------------------------------------
(* parse_results                                                           *)

\* d.get(key, default) on a dict d
dict_get(d, key, default) == IF key \in DOMAIN d.o THEN d.o[key] ELSE default

\* only a dict has a .get method; on anything else the call raises
has_get(v) == v.t = "obj"

\* lines 95-103: the record built from one listing, or the exception raised
parse_item(item) ==
    IF ~has_get(item) THEN [exc |-> AttributeError, card |-> <<>>]
    ELSE LET price == dict_get(item, "price", JObj(<<>>))
             image == dict_get(item, "image", JObj(<<>>))
             seller == dict_get(item, "seller", JObj(<<>>))
         IN  IF ~has_get(price) \/ ~has_get(image) \/ ~has_get(seller)
             THEN [exc |-> AttributeError, card |-> <<>>]
             ELSE [exc |-> NoExc,
                   card |-> [title |-> dict_get(item, "title", JStr("N/A")),
                             price |-> dict_get(price, "value", JStr("N/A")),
                             currency |-> dict_get(price, "currency", JStr("USD")),
                             condition |-> dict_get(item, "condition", JStr("N/A")),
                             item_url |-> dict_get(item, "itemWebUrl", JStr("N/A")),
                             image_url |-> dict_get(image, "imageUrl", JStr("N/A")),
                             seller |-> dict_get(seller, "username", JStr("N/A"))]]

RECURSIVE parse_loop(_, _)
\* lines 93-106: the for loop, appending to the list built so far
parse_loop(items, built) ==
    IF items = <<>> THEN [exc |-> NoExc, cards |-> built]
    ELSE LET r == parse_item(Head(items))
         IN  IF r.exc # NoExc THEN [exc |-> r.exc, cards |-> <<>>]
             ELSE parse_loop(Tail(items), Append(built, r.card))

parse_results(res) ==
    IF "itemSummaries" \notin DOMAIN res.o THEN [exc |-> NoExc, cards |-> <<>>]
    ELSE parse_loop(res.o["itemSummaries"].l, <<>>)

-----------------------------------------------------------------------------
(* save_results.  A file's text is the sequence of its JSON lexemes; the   *)
(* white space that indent=2 puts between them is left out.                *)

\* the keys of a card, in the order the dict literal of lines 95-103 adds them
CardKeys == <<"title", "price", "currency", "condition", "item_url",
              "image_url", "seller">>

Quote(s) == "\"" \o s \o "\""

\* the lexeme json.dump writes for a scalar
EncodeScalar(v) ==
    CASE v.t = "null" -> "null"
      [] v.t = "str"  -> Quote(v.s)
      [] v.t = "num"  -> ToString(v.n)

RECURSIVE DumpMembers(_, _)
DumpMembers(card, keys) ==
    IF keys = <<>> THEN <<>>
    ELSE <<Quote(Head(keys)), ":", EncodeScalar(card[Head(keys)])>>
         \o (IF Len(keys) > 1 THEN <<",">> ELSE <<>>)
         \o DumpMembers(card, Tail(keys))

RECURSIVE DumpElements(_)
DumpElements(cs) ==
    IF cs = <<>> THEN <<>>
    ELSE <<"{">> \o DumpMembers(Head(cs), CardKeys) \o <<"}">>
         \o (IF Len(cs) > 1 THEN <<",">> ELSE <<>>)
         \o DumpElements(Tail(cs))

\* line 115: json.dump(cards, f, indent=2, ensure_ascii=False)
json_dump(cs) == <<"[">> \o DumpElements(cs) \o <<"]">>

\* strftime('%Y%m%d_%H%M%S'): one text per second of the clock
strftime(now) == ToString(now)

\* a variant that opens the file for appending
open_a(files, name, text) ==
    (name :> ((IF name \in DOMAIN files THEN files[name] ELSE <<>>) \o text)) @@ files

\* line 114: open(filename, 'w') truncates, then the text is written
open_w(files, name, text) == (name :> text) @@ files

\* lines 110-118
save_results(files, cs, filename, now) ==
    LET name == IF ~Truthy(filename)
                THEN "ebay_ptcg_results_" \o strftime(now) \o ".json"
                ELSE filename.s
    IN  [fs |-> open_w(files, name, json_dump(cs)), ret |-> name]

-----------------------------------------------------------------------------
(* main                                                                    *)

\* a variant that asks for guidance only when both credentials are missing
BothCredsMissing(e) == ~Truthy(e.client_id) /\ ~Truthy(e.client_secret)

\* line 144: if not CLIENT_ID or not CLIENT_SECRET
CredsMissing(e) == ~Truthy(e.client_id) \/ ~Truthy(e.client_secret)

\* lines 160, 169, 178: the arguments of the three example searches
MainArgs ==
    <<[card_name |-> "Charizard", set_name |-> "", psa_grade |-> JNum(10), limit |-> 20],
      [card_name |-> "Pikachu", set_name |-> "", psa_grade |-> None, limit |-> 20],
      [card_name |-> "", set_name |-> "Base Set", psa_grade |-> None, limit |-> 20]>>

\* a variant that saves every example under one name
MainFilenameSame(i) == "charizard_psa10.json"

\* lines 163, 172, 181
MainFilename(i) ==
    CASE i = 1 -> "charizard_psa10.json"
      [] i = 2 -> "pikachu_psa.json"
      [] i = 3 -> "base_set_psa.json"

NoArgs == [card_name |-> "", set_name |-> "", psa_grade |-> None, limit |-> DefaultLimit]

\* os.getenv gives None for an unset variable, else its text
EnvValues == {None, JStr(""), JStr("secret")}

Init ==
    /\ pc = "main"
    /\ env \in [client_id : EnvValues, client_secret : EnvValues]
    /\ access_token = None
    /\ args = NoArgs
    /\ k = 0
    /\ http = <<>>
    /\ results = None
    /\ cards = <<>>
    /\ error = NoExc
    /\ log = <<>>
    /\ fs = <<>>
    /\ clock = 0
    /\ ret = None
    /\ saved = <<>>
    /\ history = <<>>

\* lines 141-152: the pre-flight guard, then the client is constructed
MainGuard ==
    /\ pc = "main"
    /\ IF CredsMissing(env)
       THEN /\ pc' = "done"
            /\ log' = Append(log, [ev |-> "guidance"])
            /\ k' = k
       ELSE /\ pc' = "search"
            /\ log' = log
            /\ k' = 1
    /\ access_token' = None
    /\ UNCHANGED <<env, args, http, results, cards, error, fs, clock, ret, saved, history>>

\* lines 160, 169, 178: results = scraper.search_psa_cards(...)
MainSearch ==
    /\ pc = "search"
    /\ \E tr \in TokenResponses, sr \in SearchResponses :
        LET r == search_psa_cards(access_token, MainArgs[k], tr, sr)
        IN  /\ access_token' = r.access_token
            /\ args' = MainArgs[k]
            /\ http' = r.http
            /\ log' = log \o r.http
            /\ error' = r.exc
            /\ IF r.exc # NoExc
               THEN pc' = "aborted" /\ results' = results
               ELSE pc' = "parse" /\ results' = r.ret
    /\ UNCHANGED <<env, k, cards, fs, clock, ret, saved, history>>

\* lines 161, 170, 179: cards = scraper.parse_results(results)
MainParse ==
    /\ pc = "parse"
    /\ LET r == parse_results(results)
       IN  /\ log' = Append(log, [ev |-> "parse"])
           /\ error' = r.exc
           /\ IF r.exc # NoExc
              THEN pc' = "aborted" /\ cards' = cards
              ELSE pc' = "display" /\ cards' = r.cards
    /\ UNCHANGED <<env, access_token, args, k, http, results, fs, clock, ret, saved, history>>

\* lines 120-136: what display_results prints is its number of entries
display_results(cs) == [ev |-> "display", shown |-> Len(cs)]

\* lines 162, 171, 180
MainDisplay ==
    /\ pc = "display"
    /\ log' = Append(log, display_results(cards))
    /\ pc' = "save"
    /\ UNCHANGED <<env, access_token, args, k, http, results, cards, error, fs, clock,
                   ret, saved, history>>

\* lines 163, 172, 181: scraper.save_results(cards, '<name>.json')
MainSave ==
    /\ pc = "save"
    /\ LET r == save_results(fs, cards, JStr(MainFilename(k)), clock)
       IN  /\ fs' = r.fs
           /\ ret' = JStr(r.ret)
           /\ log' = Append(log, [ev |-> "save", file |-> r.ret, cards |-> cards])
    /\ IF k < Len(MainArgs)
       THEN pc' = "search" /\ k' = k + 1
       ELSE pc' = "done" /\ k' = k
    /\ UNCHANGED <<env, access_token, args, http, results, cards, error, clock, saved,
                   history>>

Next == MainGuard \/ MainSearch \/ MainParse \/ MainDisplay \/ MainSave

Spec == Init /\ [][Next]_vars

-----------------------------------------------------------------------------
(* Properties of the run of main(), checked under Spec.                    *)

IsHttp(e) == e.ev \in {"POST", "GET"}
IsSave(e) == e.ev = "save"
Last(s) == s[Len(s)]

\* C2: when the token endpoint answers with a non-200 status the run ends
\* with the exception "Authentication failed: <body text>", and no HTTP
\* request (token POST or search GET) is issued after that answer.
C2_AuthFailureStopsRun ==
    \A i \in 1..Len(log) :
        (log[i].ev = "POST" /\ log[i].status # OK) =>
            /\ pc = "aborted"
            /\ error = Exception("Authentication failed: " \o log[i].text)
            /\ \A j \in (i + 1)..Len(log) : ~IsHttp(log[j])
            /\ ~ENABLED Next

\* the first search of a run with credentials is refused at the token endpoint
C2_Witness ==
    /\ pc = "aborted"
    /\ log = <<[ev |-> "POST", status |-> 401, text |-> "denied"]>>
    /\ error.msg = "Authentication failed: denied"

\* C3: when the search endpoint answers with a non-200 status the run ends
\* with the exception "Search failed: <body text>"; the failed GET is the last
\* effect of the run, so that search is neither parsed, displayed, saved nor
\* retried.
C3_SearchFailureStopsRun ==
    \A i \in 1..Len(log) :
        (log[i].ev = "GET" /\ log[i].status # OK) =>
            /\ pc = "aborted"
            /\ error = Exception("Search failed: " \o log[i].text)
            /\ i = Len(log)
            /\ ~ENABLED Next

\* the second search fails after the first one was parsed, shown and saved
C3_Witness ==
    /\ pc = "aborted"
    /\ k = 2
    /\ Len(log) > 1
    /\ Last(log).ev = "GET"
    /\ Last(log).status = 500
    /\ Last(log).text = "denied"
    /\ error.msg = "Search failed: denied"
    /\ \E i \in 1..Len(log) : log[i].ev = "save"

\* C7: with either credential variable unset or empty the run prints the
\* guidance and ends normally: no HTTP request, no file write, no exception.
C7_MissingCredentialsNoEffects ==
    (env.client_id \in {None, JStr("")} \/ env.client_secret \in {None, JStr("")}) =>
        /\ pc \in {"main", "done"}
        /\ error = NoExc
        /\ fs = <<>>
        /\ \A i \in 1..Len(log) : log[i].ev = "guidance"
        /\ pc = "done" => (Len(log) = 1 /\ ~ENABLED Next)

\* the client id is set, the secret is empty, and the run has ended
C7_Witness ==
    /\ pc = "done"
    /\ env.client_id = JStr("secret")
    /\ env.client_secret = JStr("")
    /\ Len(log) = 1
    /\ log[1].ev = "guidance"

OutputFiles == <<"charizard_psa10.json", "pikachu_psa.json", "base_set_psa.json">>

\* C8: when the k-th of the three searches fails (its token POST or its search
\* GET raises) the run stops there; exactly the files of searches 1..k-1
\* exist, each holding the JSON text of the cards its save was given, and the
\* files of search k and of the later searches were never written.
C8_FailedSearchKeepsEarlierFiles ==
    (pc = "aborted" /\ IsHttp(Last(log))) =>
        LET saves == SelectSeq(log, IsSave)
        IN  /\ ~ENABLED Next
            /\ Len(saves) = k - 1
            /\ Len(SelectSeq(log, LAMBDA e : e.ev = "parse")) = k - 1
            /\ Len(SelectSeq(log, LAMBDA e : e.ev = "display")) = k - 1
            /\ \A j \in 1..(k - 1) :
                /\ saves[j].file = OutputFiles[j]
                /\ OutputFiles[j] \in DOMAIN fs
                /\ fs[OutputFiles[j]] = json_dump(saves[j].cards)
            /\ \A j \in k..Len(OutputFiles) : OutputFiles[j] \notin DOMAIN fs

\* the third search fails; the two earlier files hold different results
C8_Witness ==
    /\ pc = "aborted"
    /\ k = 3
    /\ IsHttp(Last(log))
    /\ DOMAIN fs = {"charizard_psa10.json", "pikachu_psa.json"}
    /\ fs["charizard_psa10.json"] # fs["pikachu_psa.json"]
    /\ Len(fs["charizard_psa10.json"]) > 2

-----------------------------------------------------------------------------
(* A caller that keeps one client and calls search_psa_cards again and     *)
(* again, catching whatever a call raises.                                 *)

ClientArgs == {MainArgs[i] : i \in 1..Len(MainArgs)} \cup {NoArgs}

InitClient ==
    /\ pc = "client"
    /\ env = [client_id |-> JStr("secret"), client_secret |-> JStr("secret")]
    /\ access_token = None
    /\ args = NoArgs
    /\ k = 0
    /\ http = <<>>
    /\ results = None
    /\ cards = <<>>
    /\ error = NoExc
    /\ log = <<>>
    /\ fs = <<>>
    /\ clock = 0
    /\ ret = None
    /\ saved = <<>>
    /\ history = <<>>

\* how a call ended: it returned, or it raised in its token request or its search
Outcome(r) == IF r.exc = NoExc THEN "returned" ELSE r.where

\* one call of search_psa_cards(a.card_name, a.set_name, a.psa_grade, a.limit)
SearchCall(a) ==
    \E tr \in TokenResponses, sr \in SearchResponses :
        LET r == search_psa_cards(access_token, a, tr, sr)
        IN  /\ access_token' = r.access_token
            /\ args' = a
            /\ http' = r.http
            /\ error' = r.exc
            /\ results' = IF r.exc = NoExc THEN r.ret ELSE results
            /\ history' = Append(history, Outcome(r))

ClientSearch ==
    /\ pc = "client"
    /\ Len(history) < MaxCalls
    /\ \E a \in ClientArgs : SearchCall(a)
    /\ UNCHANGED <<pc, env, k, cards, log, fs, clock, ret, saved>>

NextClient == ClientSearch

SpecClient == InitClient /\ [][NextClient]_vars

HasPost(h) == \E i \in 1..Len(h) : h[i].ev = "POST"

\* C1 as stated: once the token field is set (is not None), no later search
\* call issues a token request or changes the field.
C1_AsStated ==
    [][history' # history =>
        (access_token # None => (access_token' = access_token /\ ~HasPost(http')))]_vars

\* C1, amended: a search call issues a token request only when the token
\* field is None or empty, and once it holds a non-empty token no later
\* search call issues a token request or changes it.
C1_NonEmptyTokenSetOnce ==
    [][history' # history =>
        /\ HasPost(http') => access_token \in {None, JStr("")}
        /\ access_token \notin {None, JStr("")} =>
              (access_token' = access_token /\ ~HasPost(http'))]_vars

\* a second or later call that sent its GET with the token it found
C1_Witness ==
    /\ Len(history) >= 2
    /\ access_token = JStr("tokA")
    /\ Len(http) = 1
    /\ http[1].ev = "GET"
    /\ http[1].bearer = JStr("tokA")

\* C10 as stated: a failed token request leaves the token field unchanged, a
\* call that finds no token issues a token request first, and no search GET
\* is sent while the token field is None.
C10_AsStated ==
    [][history' # history =>
        /\ access_token = None => http'[1].ev = "POST"
        /\ \A i \in 1..Len(http') :
              (http'[i].ev = "POST" /\ http'[i].status # OK) =>
                  (access_token' = access_token /\ i = Len(http'))
        /\ \A i \in 1..Len(http') :
              http'[i].ev = "GET" => http'[i].bearer # None]_vars

\* C10, amended: a failed token request leaves the token field unchanged and
\* ends the call; a call that finds the field None or empty issues a token
\* request before anything else; a search GET is sent only by a call that
\* found a non-empty token or whose own token request was answered with 200.
C10_FailedTokenLeavesFieldAbsent ==
    [][history' # history =>
        /\ ~Truthy(access_token) => http'[1].ev = "POST"
        /\ \A i \in 1..Len(http') :
              (http'[i].ev = "POST" /\ http'[i].status # OK) =>
                  (access_token' = access_token /\ i = Len(http'))
        /\ \A i \in 1..Len(http') :
              http'[i].ev = "GET" =>
                  \/ Truthy(access_token)
                  \/ (i > 1 /\ http'[i - 1].ev = "POST" /\ http'[i - 1].status = OK)]_vars

\* a call failed in its token request, and the next call requested a token
\* again and then searched with it
C10_Witness ==
    /\ Len(history) >= 2
    /\ history[Len(history) - 1] = "auth"
    /\ Last(history) = "returned"
    /\ Len(http) = 2
    /\ http[1].ev = "POST"
    /\ http[2].ev = "GET"
    /\ http[2].bearer = access_token

-----------------------------------------------------------------------------
(* The query of a single search call, for every combination of filters.    *)

GradeValues == {None} \cup {JNum(g) : g \in (0 - 1)..MaxGrade}

QueryArgs ==
    [card_name : {"", "Charizard"}, set_name : {"", "Base Set"},
     psa_grade : GradeValues, limit : {DefaultLimit}]

InitQuery ==
    /\ pc = "client"
    /\ env = [client_id |-> JStr("secret"), client_secret |-> JStr("secret")]
    /\ access_token \in {None, JStr("tokA")}
    /\ args \in QueryArgs
    /\ k = 0
    /\ http = <<>>
    /\ results = None
    /\ cards = <<>>
    /\ error = NoExc
    /\ log = <<>>
    /\ fs = <<>>
    /\ clock = 0
    /\ ret = None
    /\ saved = <<>>
    /\ history = <<>>

QuerySearch ==
    /\ pc = "client"
    /\ history = <<>>
    /\ SearchCall(args)
    /\ UNCHANGED <<pc, env, k, cards, log, fs, clock, ret, saved>>

NextQuery == QuerySearch

SpecQuery == InitQuery /\ [][NextQuery]_vars

\* C4: the q parameter of the search GET is "Pokemon PSA", then the card name
\* if it is non-empty, then the set name if it is non-empty, then
\* "PSA <grade>" for every grade that was given (is not None), all joined by
\* single spaces.
C4_QueryAsStated ==
    (http # <<>> /\ Last(http).ev = "GET") =>
        Last(http).q =
            "Pokemon PSA"
            \o (IF args.card_name # "" THEN " " \o args.card_name ELSE "")
            \o (IF args.set_name # "" THEN " " \o args.set_name ELSE "")
            \o (IF args.psa_grade # None
                THEN " PSA " \o ToString(args.psa_grade.n) ELSE "")

-----------------------------------------------------------------------------
(* parse_results on every response of the search endpoint's shape.         *)

TitleValues == {Absent, JStr("X"), None}
PriceValues ==
    {Absent, None, JStr("9.99")}
    \cup {MkObj([value |-> v, currency |-> c]) :
            v \in {Absent, JStr("9.99")}, c \in {Absent, JStr("EUR")}}
ConditionValues == {Absent, JStr("Graded")}
UrlValues == {Absent, JStr("https://ebay/1")}
ImageValues ==
    {Absent, None} \cup {MkObj([imageUrl |-> v]) : v \in {Absent, JStr("https://img/1")}}
SellerValues ==
    {Absent, JStr("ash")} \cup {MkObj([username |-> v]) : v \in {Absent, JStr("ash")}}

\* every listing: each field missing, present, or present with the wrong shape
AllItems ==
    {MkObj([title |-> t, price |-> p, condition |-> c, itemWebUrl |-> u,
            image |-> i, seller |-> s]) :
        t \in TitleValues, p \in PriceValues, c \in ConditionValues,
        u \in UrlValues, i \in ImageValues, s \in SellerValues}

ParseInputs ==
    {JObj(<<>>), JObj("total" :> JNum(0))}
    \cup {JObj("itemSummaries" :> JList(<<i>>)) : i \in AllItems}
    \cup {JObj("itemSummaries" :> JList(l)) :
            l \in UNION {[1..n -> SampleItems] : n \in 0..MaxItems}}

InitParse ==
    /\ pc = "parse"
    /\ env = [client_id |-> JStr("secret"), client_secret |-> JStr("secret")]
    /\ access_token = None
    /\ args = NoArgs
    /\ k = 0
    /\ http = <<>>
    /\ results \in ParseInputs
    /\ cards = <<>>
    /\ error = NoExc
    /\ log = <<>>
    /\ fs = <<>>
    /\ clock = 0
    /\ ret = None
    /\ saved = <<>>
    /\ history = <<>>

\* one call of parse_results(results)
ParseCall ==
    /\ pc = "parse"
    /\ LET r == parse_results(results)
       IN  /\ error' = r.exc
           /\ cards' = r.cards
    /\ pc' = "parsed"
    /\ UNCHANGED <<env, access_token, args, k, http, results, log, fs, clock, ret,
                   saved, history>>

NextParse == ParseCall

SpecParse == InitParse /\ [][NextParse]_vars

\* the value at item[parent][child], or Absent when the key, its parent, or
\* the parent's object shape is missing
Nested(item, parent, child) ==
    IF parent \in DOMAIN item.o /\ item.o[parent].t = "obj"
       /\ child \in DOMAIN item.o[parent].o
    THEN item.o[parent].o[child] ELSE Absent

Field(item, key) == IF key \in DOMAIN item.o THEN item.o[key] ELSE Absent

OrElse(v, sentinel) == IF v = Absent THEN sentinel ELSE v

Listings == IF "itemSummaries" \in DOMAIN results.o
            THEN results.o["itemSummaries"].l ELSE <<>>

\* C5: for every listing, whichever of its fields are missing or malformed,
\* parse_results does not fail and yields a record with exactly the seven
\* keys, each value copied when present and "N/A" ("USD" for currency) if not.
C5_EveryListingNormalised ==
    pc = "parsed" =>
        /\ error = NoExc
        /\ \A i \in 1..Len(cards) :
            /\ DOMAIN cards[i] = {"title", "price", "currency", "condition",
                                  "item_url", "image_url", "seller"}
            /\ cards[i].title = OrElse(Field(Listings[i], "title"), JStr("N/A"))
            /\ cards[i].price = OrElse(Nested(Listings[i], "price", "value"), JStr("N/A"))
            /\ cards[i].currency =
                   OrElse(Nested(Listings[i], "price", "currency"), JStr("USD"))
            /\ cards[i].condition = OrElse(Field(Listings[i], "condition"), JStr("N/A"))
            /\ cards[i].item_url = OrElse(Field(Listings[i], "itemWebUrl"), JStr("N/A"))
            /\ cards[i].image_url =
                   OrElse(Nested(Listings[i], "image", "imageUrl"), JStr("N/A"))
            /\ cards[i].seller =
                   OrElse(Nested(Listings[i], "seller", "username"), JStr("N/A"))

\* C6: without an itemSummaries key parse_results returns the empty sequence
\* and does not fail; with one it returns one record per listing, in the
\* order of the response, the i-th record carrying the i-th listing's title.
C6_OneRecordPerListingInOrder ==
    pc = "parsed" =>
        IF "itemSummaries" \notin DOMAIN results.o
        THEN error = NoExc /\ cards = <<>>
        ELSE /\ error = NoExc
             /\ Len(cards) = Len(Listings)
             /\ \A i \in 1..Len(Listings) :
                    cards[i].title = OrElse(Field(Listings[i], "title"), JStr("N/A"))

-----------------------------------------------------------------------------
(* save_results called again and again, and the files read back.           *)

\* a record of sentinels, and one whose values look like JSON's own lexemes
SentinelCard ==
    [title |-> JStr("X"), price |-> JStr("N/A"), currency |-> JStr("USD"),
     condition |-> JStr("N/A"), item_url |-> JStr("N/A"),
     image_url |-> JStr("N/A"), seller |-> JStr("N/A")]
TrickyCard ==
    [title |-> JStr("null"), price |-> JNum(1), currency |-> JStr("1"),
     condition |-> None, item_url |-> JStr(","), image_url |-> JStr("]"),
     seller |-> JStr("")]

SaveInputs ==
    {<<>>, <<SentinelCard>>, <<TrickyCard>>, <<SentinelCard, TrickyCard>>,
     <<TrickyCard, SentinelCard>>, <<TrickyCard, TrickyCard>>}

Filenames == {None, JStr(""), JStr("out.json")}

\* what a reader of the files can meet as a scalar and as a key
ScalarUniverse ==
    {None, JNum(0), JNum(1)}
    \cup {JStr(x) : x \in {"", "X", "N/A", "USD", "null", "1", ",", "]"}}
KeyUniverse == {CardKeys[i] : i \in 1..Len(CardKeys)}

IsScalarLexeme(x) == \E v \in ScalarUniverse : EncodeScalar(v) = x
DecodeScalar(x) == CHOOSE v \in ScalarUniverse : EncodeScalar(v) = x
IsKeyLexeme(x) == \E key \in KeyUniverse : Quote(key) = x
DecodeKey(x) == CHOOSE key \in KeyUniverse : Quote(key) = x

LoadFail == [ok |-> FALSE, val |-> <<>>, next |-> 0]

RECURSIVE LoadMembers(_, _, _)
\* "key" : scalar, then "," and more members, or "}"
LoadMembers(text, i, obj) ==
    IF i + 3 > Len(text) \/ ~IsKeyLexeme(text[i]) \/ text[i + 1] # ":"
       \/ ~IsScalarLexeme(text[i + 2])
    THEN LoadFail
    ELSE LET obj2 == (DecodeKey(text[i]) :> DecodeScalar(text[i + 2])) @@ obj
         IN  IF text[i + 3] = "," THEN LoadMembers(text, i + 4, obj2)
             ELSE IF text[i + 3] = "}" THEN [ok |-> TRUE, val |-> obj2, next |-> i + 4]
             ELSE LoadFail

LoadObject(text, i) ==
    IF i + 1 > Len(text) \/ text[i] # "{" THEN LoadFail
    ELSE IF text[i + 1] = "}" THEN [ok |-> TRUE, val |-> <<>>, next |-> i + 2]
    ELSE LoadMembers(text, i + 1, <<>>)

RECURSIVE LoadElements(_, _, _)
\* an object, then "," and more objects, or "]"
LoadElements(text, i, list) ==
    LET o == LoadObject(text, i)
    IN  IF ~o.ok \/ o.next > Len(text) THEN LoadFail
        ELSE IF text[o.next] = "," THEN LoadElements(text, o.next + 1, Append(list, o.val))
        ELSE IF text[o.next] = "]"
             THEN [ok |-> TRUE, val |-> Append(list, o.val), next |-> o.next + 1]
        ELSE LoadFail

\* json.load of a file: a list of flat objects, and nothing after it
json_load(text) ==
    LET r == IF Len(text) < 2 \/ text[1] # "[" THEN LoadFail
             ELSE IF text[2] = "]" THEN [ok |-> TRUE, val |-> <<>>, next |-> 3]
             ELSE LoadElements(text, 2, <<>>)
    IN  IF r.ok /\ r.next = Len(text) + 1 THEN [ok |-> TRUE, val |-> r.val]
        ELSE [ok |-> FALSE, val |-> <<>>]

InitSave ==
    /\ pc = "save"
    /\ env = [client_id |-> JStr("secret"), client_secret |-> JStr("secret")]
    /\ access_token = None
    /\ args = [filename |-> None]
    /\ k = 0
    /\ http = <<>>
    /\ results = None
    /\ cards = <<>>
    /\ error = NoExc
    /\ log = <<>>
    /\ fs = <<>>
    /\ clock = 0
    /\ ret = None
    /\ saved = <<>>
    /\ history = <<>>

\* one call of save_results(cs, filename)
SaveCall ==
    /\ pc = "save"
    /\ \E cs \in SaveInputs, filename \in Filenames :
        LET r == save_results(fs, cs, filename, clock)
        IN  /\ fs' = r.fs
            /\ ret' = JStr(r.ret)
            /\ args' = [filename |-> filename]
            /\ saved' = (r.ret :> cs) @@ saved
    /\ UNCHANGED <<pc, env, access_token, k, http, results, cards, error, log, clock,
                   history>>

\* a second passes
Tick ==
    /\ pc = "save"
    /\ clock < MaxClock
    /\ clock' = clock + 1
    /\ UNCHANGED <<pc, env, access_token, args, k, http, results, cards, error, log,
                   fs, ret, saved, history>>

NextSave == SaveCall \/ Tick

SpecSave == InitSave /\ [][NextSave]_vars

\* C9: the file at every name a save returned reads back as exactly the
\* cards of the latest save that returned that name (a save replaces the
\* file), and a save returns the name it was given, or the name made from the
\* time of the call when it was given none (None or the empty name).
C9_ReadBackLatestSave ==
    /\ [](\A f \in DOMAIN saved :
            /\ f \in DOMAIN fs
            /\ json_load(fs[f]) = [ok |-> TRUE, val |-> saved[f]])
    /\ [][clock' = clock =>
            /\ ret' = IF args'.filename \in {None, JStr("")}
                      THEN JStr("ebay_ptcg_results_" \o ToString(clock) \o ".json")
                      ELSE args'.filename
            /\ ret'.s \in DOMAIN saved']_vars

\* a named file and a time-named file each saved, the named one overwritten
\* by a save of two different cards
C9_Witness ==
    /\ DOMAIN saved = {"out.json", "ebay_ptcg_results_1.json"}
    /\ saved["out.json"] = <<TrickyCard, SentinelCard>>
    /\ saved["ebay_ptcg_results_1.json"] = <<SentinelCard>>
    /\ ret = JStr("out.json")
    /\ json_load(fs["out.json"]).val = <<TrickyCard, SentinelCard>>

====
